---- MODULE Spec2Model ----
(***************************************************************************)
(* CharacterList (src/component/CharacterList/index.tsx): a React          *)
(* component holding a filtered/sorted view of a parent-owned list of      *)
(* characters, an incremental page fetch (loadMoreCharacters) and the      *)
(* detail/edit/delete overlays.                                            *)
(*                                                                         *)
(* Strings that the code inspects (names, the search term) are sequences   *)
(* of UTF-16 code units, so that toLowerCase, includes and < are computed  *)
(* the way the code computes them.  Event handlers run to completion and   *)
(* the component re-renders before the next event is dispatched, so every  *)
(* handler reads the state of the latest render; an async continuation     *)
(* reads the values its closure captured when the handler was invoked.     *)
(***************************************************************************)
EXTENDS Integers, Sequences, FiniteSets, TLC

\* ------------------------------------------------------------------ bounds

\* The cursor is capped: no request is issued once page = MaxPage.
MaxPage == 2
\* Requests in flight at once that the model can represent.
MaxPending == 2
\* Longest collection the pipeline specification draws as input.
MaxLen == 3

\* ------------------------------------------------------------ data universe

\* "Ri", "Be", "be" as code units.
Names == { <<82, 105>>, <<66, 101>>, <<98, 101>> }
Statuses == { "Alive", "Dead" }
Filters == { "All", "Dead" }
\* "" and "bE"
SearchTerms == { <<>>, <<98, 69>> }
SortOrders == { "asc", "desc" }

Char(i, n, s) == [id |-> i, name |-> n, status |-> s]

\* selectedCharacter === null
NoCharacter == [id |-> 0, name |-> <<>>, status |-> "null"]

\* ------------------------------------------------- strings, as the code sees them

\* String.prototype.toLowerCase on one code unit (A-Z only)
lowerUnit(c) == IF c >= 65 /\ c <= 90 THEN c + 32 ELSE c

toLowerCase(s) == [i \in 1..Len(s) |-> lowerUnit(s[i])]

\* String.prototype.includes
includes(s, t) ==
    \E k \in 0..(Len(s) - Len(t)) : \A i \in 1..Len(t) : s[k + i] = t[i]

\* the < of two strings: lexicographic on code units, a proper prefix is smaller
RECURSIVE strLess(_, _)
strLess(a, b) ==
    IF b = <<>> THEN FALSE
    ELSE IF a = <<>> THEN TRUE
    ELSE IF a[1] # b[1] THEN a[1] < b[1]
    ELSE strLess(Tail(a), Tail(b))

\* ------------------------------------------------------ the filter/sort pipeline

\* compareNames that ignores the sort direction
compareNamesAscendingOnly(a, b, order) ==
    IF strLess(a.name, b.name) THEN -1
    ELSE IF strLess(b.name, a.name) THEN 1
    ELSE 0

\* the comparator handed to sort (lines 85-89)
compareNames(a, b, order) ==
    IF strLess(a.name, b.name) THEN (IF order = "asc" THEN -1 ELSE 1)
    ELSE IF strLess(b.name, a.name) THEN (IF order = "asc" THEN 1 ELSE -1)
    ELSE 0

\* insertSorted that puts a record before the records it ties with
insertSortedBeforeTies(x, s, order) ==
    LET RECURSIVE ins(_)
        ins(t) ==
            IF t = <<>> THEN <<x>>
            ELSE IF compareNames(x, t[1], order) <= 0 THEN <<x>> \o t
            ELSE <<t[1]>> \o ins(Tail(t))
    IN  ins(s)

\* Array.prototype.sort with that comparator: a stable sort (ES2019)
RECURSIVE insertSorted(_, _, _)
insertSorted(x, s, order) ==
    IF s = <<>> THEN <<x>>
    ELSE IF compareNames(x, s[1], order) < 0 THEN <<x>> \o s
    ELSE <<s[1]>> \o insertSorted(x, Tail(s), order)

RECURSIVE sortByName(_, _)
sortByName(s, order) ==
    IF s = <<>> THEN <<>>
    ELSE insertSorted(s[Len(s)], sortByName(SubSeq(s, 1, Len(s) - 1), order), order)

\* line 76
filterByStatus(chars, f) == SelectSeq(chars, LAMBDA c : c.status = f)

\* filterByTerm comparing the name with the term as typed
filterByTermAsTyped(chars, term) ==
    SelectSeq(chars, LAMBDA c : includes(toLowerCase(c.name), term))

\* lines 80-82
filterByTerm(chars, term) ==
    SelectSeq(chars, LAMBDA c : includes(toLowerCase(c.name), toLowerCase(term)))

\* lines 72-92.  `filtered` starts as the characters array itself and each
\* Array.prototype.filter makes a new array; Array.prototype.sort sorts the
\* array it is called on in place and returns it.  view is the array returned,
\* source is the characters array as the call leaves it.
getFilteredAndSortedCharacters(chars, f, term, order) ==
    LET step1 == IF f # "All" THEN filterByStatus(chars, f) ELSE chars
        step2 == IF term # <<>> THEN filterByTerm(step1, term) ELSE step1
        sameArray == ~(f # "All") /\ ~(term # <<>>)
        sorted == sortByName(step2, order)
    IN  [view |-> sorted, source |-> IF sameArray THEN sorted ELSE chars]

\* ------------------------------------------------------------ the page merge

\* new Map(entries): a key keeps the position of its first entry and the
\* value of its last one
RECURSIVE mapSet(_, _)
mapSet(m, c) ==
    IF m = <<>> THEN <<c>>
    ELSE IF m[1].id = c.id THEN <<c>> \o Tail(m)
    ELSE <<m[1]>> \o mapSet(Tail(m), c)

RECURSIVE newMap(_)
newMap(s) ==
    IF s = <<>> THEN <<>>
    ELSE mapSet(newMap(SubSeq(s, 1, Len(s) - 1)), s[Len(s)])

\* uniqueCharacters keeping the record already held for a repeated identifier
uniqueCharactersFirstWins(all, results) ==
    LET RECURSIVE addNew(_, _)
        addNew(m, rs) ==
            IF rs = <<>> THEN m
            ELSE addNew(IF \E i \in 1..Len(m) : m[i].id = rs[1].id
                        THEN m ELSE Append(m, rs[1]), Tail(rs))
    IN  addNew(<<>>, all \o results)

\* lines 54-56
uniqueCharacters(all, results) == newMap(all \o results)

\* -------------------------------------------------------------- inputs

\* the first page, held by the parent and by the data hook when the list is
\* first shown
InitCollections ==
    { << Char(1, <<82, 105>>, "Alive"), Char(2, <<66, 101>>, "Dead") >>,
      << Char(1, <<98, 101>>, "Alive") >> }

\* the `results` arrays the endpoint may answer with: none, one new record,
\* and a page that repeats an identifier and overlaps the records already held
ServerPages ==
    { << >>,
      << Char(3, <<66, 101>>, "Dead") >>,
      << Char(2, <<98, 101>>, "Alive"), Char(3, <<82, 105>>, "Alive"),
         Char(3, <<66, 101>>, "Dead") >> }

\* what the edit overlay may hand to onSave for the record it was given
Edits(c) == { [c EXCEPT !.name = <<98, 101>>] }

\* -------------------------------------------------------------- state

VARIABLES
    searchTerm, filter, sortOrder,  \* props (lines 28-30)
    characters,                     \* prop: the parent's array (line 31)
    allCharacters,                  \* the data hook's characters (line 34)
    filteredCharacters,             \* line 35
    selectedCharacter,              \* line 36
    isModalVisible,                 \* line 39
    isEditModalVisible,             \* line 40
    page, hasMore, loadingMore,     \* lines 41-43
    pending,                        \* fetches awaited at line 50, with what their closure captured
    alert,                          \* the confirmation dialog of handleDelete, when shown
    mounted,                        \* whether the component is still mounted
    op,                             \* history: the kind of event handled last
    attempt,                        \* history: the latest fetch attempt
    local                           \* history: the identifiers deleted and edited so far

props == <<searchTerm, filter, sortOrder>>
overlay == <<selectedCharacter, isModalVisible, isEditModalVisible>>
cursor == <<page, hasMore, loadingMore, pending>>
vars == <<searchTerm, filter, sortOrder, characters, allCharacters,
          filteredCharacters, selectedCharacter, isModalVisible,
          isEditModalVisible, page, hasMore, loadingMore, pending, alert,
          mounted, op, attempt, local>>

\* before: history, the overlay state when handleDelete was called
NoAlert == [id |-> 0, characters |-> <<>>, before |-> <<NoCharacter, FALSE, FALSE>>]

NoLocal == [deleted |-> {}, edited |-> {}]

\* an event that neither deletes nor edits a record, in a component that lives on
Quiet == UNCHANGED <<local, mounted>>

NoAttempt == [page |-> 0, all |-> <<>>, again |-> FALSE, outcome |-> "none", retryOf |-> 0]

\* the effect of lines 71-95, run with the props of the render it follows
runEffect(chars, f, term, order) ==
    LET r == getFilteredAndSortedCharacters(chars, f, term, order)
    IN  /\ filteredCharacters' = r.view
        /\ characters' = r.source

\* the useState initial values, then the first run of the effect
Mounted(chars, all, f, term, order) ==
    LET r == getFilteredAndSortedCharacters(chars, f, term, order)
    IN  /\ searchTerm = term /\ filter = f /\ sortOrder = order
        /\ characters = r.source
        /\ allCharacters = all
        /\ filteredCharacters = r.view
        /\ selectedCharacter = NoCharacter
        /\ isModalVisible = FALSE
        /\ isEditModalVisible = FALSE
        /\ page = 1
        /\ hasMore = TRUE
        /\ loadingMore = FALSE
        /\ pending = <<>>
        /\ alert = NoAlert
        /\ mounted = TRUE
        /\ op = "mount"
        /\ attempt = NoAttempt
        /\ local = NoLocal

Init ==
    \E chars \in InitCollections : Mounted(chars, chars, "All", <<>>, "asc")

\* -------------------------------------------------------------- pagination

\* the history of the latest attempt, as loadMoreCharacters records it
attemptAfterLoadMore ==
    IF pending # <<>> THEN [attempt EXCEPT !.again = TRUE]
    ELSE IF pending' # <<>>
         THEN [page |-> page, all |-> allCharacters, again |-> FALSE,
               outcome |-> "pending",
               retryOf |-> IF attempt.outcome = "error" THEN attempt.page ELSE 0]
         ELSE attempt

\* loadMoreCharacters whose guard forgets the in-flight flag
loadMoreCharactersNoInFlightGuard ==
    /\ mounted
    /\ filteredCharacters # <<>>
    /\ IF ~hasMore
       THEN UNCHANGED <<loadingMore, pending>>
       ELSE /\ page < MaxPage
            /\ Len(pending) < MaxPending
            /\ loadingMore' = TRUE
            /\ pending' = Append(pending, [page |-> page, allCharacters |-> allCharacters])
    /\ attempt' = attemptAfterLoadMore
    /\ op' = "loadMore"
    /\ Quiet
    /\ UNCHANGED <<props, characters, allCharacters, filteredCharacters, overlay,
                   page, hasMore, alert>>

\* loadMoreCharacters whose guard joins the two tests with && instead of ||
loadMoreCharactersGuardAnd ==
    /\ mounted
    /\ filteredCharacters # <<>>
    /\ IF loadingMore /\ ~hasMore
       THEN UNCHANGED <<loadingMore, pending>>
       ELSE /\ page < MaxPage
            /\ Len(pending) < MaxPending
            /\ loadingMore' = TRUE
            /\ pending' = Append(pending, [page |-> page, allCharacters |-> allCharacters])
    /\ attempt' = attemptAfterLoadMore
    /\ op' = "loadMore"
    /\ Quiet
    /\ UNCHANGED <<props, characters, allCharacters, filteredCharacters, overlay,
                   page, hasMore, alert>>

\* loadMoreCharacters whose guard forgets has-more
loadMoreCharactersNoHasMoreGuard ==
    /\ mounted
    /\ filteredCharacters # <<>>
    /\ IF loadingMore
       THEN UNCHANGED <<loadingMore, pending>>
       ELSE /\ page < MaxPage
            /\ Len(pending) < MaxPending
            /\ loadingMore' = TRUE
            /\ pending' = Append(pending, [page |-> page, allCharacters |-> allCharacters])
    /\ attempt' = attemptAfterLoadMore
    /\ op' = "loadMore"
    /\ Quiet
    /\ UNCHANGED <<props, characters, allCharacters, filteredCharacters, overlay,
                   page, hasMore, alert>>

\* lines 45-50, up to the await.  onEndReached belongs to the FlatList, which
\* is rendered only while the view is not empty (lines 167-181).
loadMoreCharacters ==
    /\ mounted
    /\ filteredCharacters # <<>>
    /\ IF loadingMore \/ ~hasMore
       THEN UNCHANGED <<loadingMore, pending>>
       ELSE /\ page < MaxPage
            /\ Len(pending) < MaxPending
            /\ loadingMore' = TRUE
            /\ pending' = Append(pending, [page |-> page, allCharacters |-> allCharacters])
    /\ attempt' = attemptAfterLoadMore
    /\ op' = "loadMore"
    /\ Quiet
    /\ UNCHANGED <<props, characters, allCharacters, filteredCharacters, overlay,
                   page, hasMore, alert>>

Without(s, i) == SubSeq(s, 1, i - 1) \o SubSeq(s, i + 1, Len(s))

\* the data hook's setCharacters (line 34): the hook's characters become the
\* array handed to it
updateCharacters(newCharacters) == allCharacters' = newCharacters

\* lines 51-59 and 65-67: the awaited fetch answers a non-empty results array
loadMoreResults(i, results) ==
    /\ mounted
    /\ i \in 1..Len(pending)
    /\ Len(results) > 0
    /\ LET unique == uniqueCharacters(pending[i].allCharacters, results)
       IN  /\ updateCharacters(unique)
           /\ filteredCharacters' = unique
    /\ page' = page + 1
    /\ loadingMore' = FALSE
    /\ pending' = Without(pending, i)
    /\ attempt' = [attempt EXCEPT !.outcome = "ok"]
    /\ op' = "fetch"
    /\ Quiet
    /\ UNCHANGED <<props, characters, overlay, hasMore, alert>>

\* loadMoreEmpty that also moves the cursor on
loadMoreEmptyAdvances(i) ==
    /\ mounted
    /\ i \in 1..Len(pending)
    /\ hasMore' = FALSE
    /\ page' = page + 1
    /\ loadingMore' = FALSE
    /\ pending' = Without(pending, i)
    /\ attempt' = [attempt EXCEPT !.outcome = "empty"]
    /\ op' = "fetch"
    /\ Quiet
    /\ UNCHANGED <<props, characters, allCharacters, filteredCharacters, overlay, alert>>

\* lines 60-62 and 65-67: the results array is empty
loadMoreEmpty(i) ==
    /\ mounted
    /\ i \in 1..Len(pending)
    /\ hasMore' = FALSE
    /\ loadingMore' = FALSE
    /\ pending' = Without(pending, i)
    /\ attempt' = [attempt EXCEPT !.outcome = "empty"]
    /\ op' = "fetch"
    /\ Quiet
    /\ UNCHANGED <<props, characters, allCharacters, filteredCharacters, overlay,
                   page, alert>>

\* loadMoreError that releases the flag in the try block only, not in a finally
loadMoreErrorKeepsFlag(i) ==
    /\ mounted
    /\ i \in 1..Len(pending)
    /\ pending' = Without(pending, i)
    /\ attempt' = [attempt EXCEPT !.outcome = "error"]
    /\ op' = "fetch"
    /\ Quiet
    /\ UNCHANGED <<props, characters, allCharacters, filteredCharacters, overlay,
                   page, hasMore, loadingMore, alert>>

\* loadMoreError that moves the cursor on, as if setPage stood in the finally
loadMoreErrorAdvances(i) ==
    /\ mounted
    /\ i \in 1..Len(pending)
    /\ page' = page + 1
    /\ loadingMore' = FALSE
    /\ pending' = Without(pending, i)
    /\ attempt' = [attempt EXCEPT !.outcome = "error"]
    /\ op' = "fetch"
    /\ Quiet
    /\ UNCHANGED <<props, characters, allCharacters, filteredCharacters, overlay,
                   hasMore, alert>>

\* lines 63-67: fetch rejects, the body is not JSON, or it has no results array
loadMoreError(i) ==
    /\ mounted
    /\ i \in 1..Len(pending)
    /\ loadingMore' = FALSE
    /\ pending' = Without(pending, i)
    /\ attempt' = [attempt EXCEPT !.outcome = "error"]
    /\ op' = "fetch"
    /\ Quiet
    /\ UNCHANGED <<props, characters, allCharacters, filteredCharacters, overlay,
                   page, hasMore, alert>>

\* ------------------------------------------------------- props from the parent

\* setSearchTerm with an effect that restarts the pagination on a new search
setSearchTermRestarts(term) ==
    /\ mounted
    /\ alert = NoAlert
    /\ term # searchTerm
    /\ searchTerm' = term
    /\ runEffect(characters, filter, term, sortOrder)
    /\ hasMore' = TRUE
    /\ op' = "ui"
    /\ Quiet
    /\ UNCHANGED <<filter, sortOrder, allCharacters, overlay, page, loadingMore,
                   pending, alert, attempt>>

setSearchTerm(term) ==
    /\ mounted
    /\ alert = NoAlert
    /\ term # searchTerm
    /\ searchTerm' = term
    /\ runEffect(characters, filter, term, sortOrder)
    /\ op' = "ui"
    /\ Quiet
    /\ UNCHANGED <<filter, sortOrder, allCharacters, overlay, cursor, alert, attempt>>

setFilter(f) ==
    /\ mounted
    /\ alert = NoAlert
    /\ f # filter
    /\ filter' = f
    /\ runEffect(characters, f, searchTerm, sortOrder)
    /\ op' = "ui"
    /\ Quiet
    /\ UNCHANGED <<searchTerm, sortOrder, allCharacters, overlay, cursor, alert, attempt>>

setSortOrder(order) ==
    /\ mounted
    /\ alert = NoAlert
    /\ order # sortOrder
    /\ sortOrder' = order
    /\ runEffect(characters, filter, searchTerm, order)
    /\ op' = "ui"
    /\ Quiet
    /\ UNCHANGED <<searchTerm, filter, allCharacters, overlay, cursor, alert, attempt>>

\* -------------------------------------------------------------- overlays

Elems(s) == { s[i] : i \in 1..Len(s) }

\* lines 98-101, from the onPress of a rendered item (line 151)
openModal(character) ==
    /\ mounted
    /\ alert = NoAlert
    /\ character \in Elems(filteredCharacters)
    /\ selectedCharacter' = character
    /\ isModalVisible' = TRUE
    /\ op' = "ui"
    /\ Quiet
    /\ UNCHANGED <<props, characters, allCharacters, filteredCharacters,
                   isEditModalVisible, cursor, alert, attempt>>

\* lines 103-106
closeModal ==
    /\ mounted
    /\ alert = NoAlert
    /\ isModalVisible
    /\ isModalVisible' = FALSE
    /\ selectedCharacter' = NoCharacter
    /\ op' = "ui"
    /\ Quiet
    /\ UNCHANGED <<props, characters, allCharacters, filteredCharacters,
                   isEditModalVisible, cursor, alert, attempt>>

\* lines 109-131, called with selectedCharacter.id (line 188): the dialog is
\* shown and the detail overlay hidden; the buttons act later
handleDelete ==
    /\ mounted
    /\ alert = NoAlert
    /\ isModalVisible
    /\ alert' = [id |-> selectedCharacter.id, characters |-> characters,
                 before |-> overlay]
    /\ isModalVisible' = FALSE
    /\ op' = "ui"
    /\ Quiet
    /\ UNCHANGED <<props, characters, allCharacters, filteredCharacters,
                   selectedCharacter, isEditModalVisible, cursor, attempt>>

\* lines 120-125: "Excluir"; the parent re-renders and the effect runs
confirmDelete ==
    /\ mounted
    /\ alert # NoAlert
    /\ LET updatedCharacters == SelectSeq(alert.characters, LAMBDA c : c.id # alert.id)
       IN  runEffect(updatedCharacters, filter, searchTerm, sortOrder)
    /\ local' = IF alert.id \in { c.id : c \in Elems(alert.characters) }
                THEN [local EXCEPT !.deleted = @ \cup {alert.id}] ELSE local
    /\ alert' = NoAlert
    /\ op' = "ui"
    /\ UNCHANGED <<props, allCharacters, overlay, cursor, attempt, mounted>>

\* lines 114-117: "Cancelar"
cancelDelete ==
    /\ mounted
    /\ alert # NoAlert
    /\ alert' = NoAlert
    /\ op' = "ui"
    /\ Quiet
    /\ UNCHANGED <<props, characters, allCharacters, filteredCharacters, overlay,
                   cursor, attempt>>

\* lines 134-138, called by the detail overlay with the character it shows
handleEdit ==
    /\ mounted
    /\ alert = NoAlert
    /\ isModalVisible
    /\ selectedCharacter' = selectedCharacter
    /\ isEditModalVisible' = TRUE
    /\ isModalVisible' = FALSE
    /\ op' = "ui"
    /\ Quiet
    /\ UNCHANGED <<props, characters, allCharacters, filteredCharacters, cursor,
                   alert, attempt>>

\* lines 142-144: characters.map
RECURSIVE replaceById(_, _)
replaceById(chars, updatedCharacter) ==
    IF chars = <<>> THEN <<>>
    ELSE <<IF Head(chars).id = updatedCharacter.id THEN updatedCharacter ELSE Head(chars)>>
         \o replaceById(Tail(chars), updatedCharacter)

\* lines 141-147, from the edit overlay (rendered while a character is selected)
saveEdit(updatedCharacter) ==
    /\ mounted
    /\ alert = NoAlert
    /\ selectedCharacter # NoCharacter
    /\ isEditModalVisible
    /\ LET updatedCharacters == replaceById(characters, updatedCharacter)
       IN  runEffect(updatedCharacters, filter, searchTerm, sortOrder)
    /\ local' = IF updatedCharacter.id \in { c.id : c \in Elems(characters) }
                THEN [local EXCEPT !.edited = @ \cup {updatedCharacter.id}] ELSE local
    /\ isEditModalVisible' = FALSE
    /\ op' = "ui"
    /\ UNCHANGED <<props, allCharacters, selectedCharacter, isModalVisible, cursor,
                   alert, attempt, mounted>>

\* line 195: the edit overlay's onClose
closeEditModal ==
    /\ mounted
    /\ alert = NoAlert
    /\ selectedCharacter # NoCharacter
    /\ isEditModalVisible
    /\ isEditModalVisible' = FALSE
    /\ op' = "ui"
    /\ Quiet
    /\ UNCHANGED <<props, characters, allCharacters, filteredCharacters,
                   selectedCharacter, isModalVisible, cursor, alert, attempt>>

\* -------------------------------------------------------------- teardown

\* the component is unmounted.  Followed only while a fetch is outstanding:
\* after any other teardown nothing of the component runs again.
unmount ==
    /\ mounted
    /\ pending # <<>>
    /\ mounted' = FALSE
    /\ op' = "unmount"
    /\ UNCHANGED <<props, characters, allCharacters, filteredCharacters, overlay,
                   cursor, alert, attempt, local>>

\* lines 51-67 running after the teardown with their writes applied all the same
loadMoreSettlesTornDownWriting(i) ==
    /\ ~mounted
    /\ i \in 1..Len(pending)
    /\ \E results \in ServerPages \ {<<>>} :
          LET unique == uniqueCharacters(pending[i].allCharacters, results)
          IN  /\ updateCharacters(unique)
              /\ filteredCharacters' = unique
    /\ page' = page + 1
    /\ loadingMore' = FALSE
    /\ pending' = Without(pending, i)
    /\ UNCHANGED <<props, characters, overlay, hasMore, alert, mounted, op, attempt,
                   local>>

\* lines 51-67 running after the teardown, whatever the fetch answers: the
\* code has no guard of its own, and the setters of an unmounted component
\* (the useState ones and those of the hook it called) change nothing
loadMoreSettlesTornDown(i) ==
    /\ ~mounted
    /\ i \in 1..Len(pending)
    /\ pending' = Without(pending, i)
    /\ UNCHANGED <<props, characters, allCharacters, filteredCharacters, overlay,
                   page, hasMore, loadingMore, alert, mounted, op, attempt, local>>

\* -------------------------------------------------------------- specification

Next ==
    \/ loadMoreCharacters
    \/ \E i \in 1..MaxPending, results \in ServerPages : loadMoreResults(i, results)
    \/ \E i \in 1..MaxPending : loadMoreEmpty(i)
    \/ \E i \in 1..MaxPending : loadMoreError(i)
    \/ \E term \in SearchTerms : setSearchTerm(term)
    \/ \E f \in Filters : setFilter(f)
    \/ \E order \in SortOrders : setSortOrder(order)
    \/ \E character \in Elems(filteredCharacters) : openModal(character)
    \/ closeModal
    \/ handleDelete
    \/ confirmDelete
    \/ cancelDelete
    \/ handleEdit
    \/ \E updatedCharacter \in Edits(selectedCharacter) : saveEdit(updatedCharacter)
    \/ closeEditModal
    \/ unmount
    \/ \E i \in 1..MaxPending : loadMoreSettlesTornDown(i)

Spec == Init /\ [][Next]_vars

\* ------------------------------------------- the pipeline on bounded inputs

PipeChars ==
    { Char(1, <<82, 105>>, "Alive"), Char(2, <<66, 101>>, "Dead"),
      Char(3, <<98, 101>>, "Alive"), Char(4, <<82, 105>>, "Dead"),
      Char(5, <<82>>, "Alive") }

\* "", "bE", "RI", "i"
PipeTerms == { <<>>, <<98, 69>>, <<82, 73>>, <<105>> }
PipeFilters == { "All", "Alive", "Dead" }

\* collections of at most MaxLen records with distinct identifiers
PipeCollections ==
    { s \in UNION { [1..n -> PipeChars] : n \in 0..MaxLen } :
        \A i, j \in 1..Len(s) : i # j => s[i].id # s[j].id }

InitPipe ==
    \E chars \in PipeCollections, f \in PipeFilters, term \in PipeTerms,
       order \in SortOrders :
        Mounted(chars, <<>>, f, term, order)

NextPipe ==
    \/ \E term \in PipeTerms : setSearchTerm(term)
    \/ \E f \in PipeFilters : setFilter(f)
    \/ \E order \in SortOrders : setSortOrder(order)

SpecPipe == InitPipe /\ [][NextPipe]_vars

\* ================================================================ properties

Ids(s) == { s[i].id : i \in 1..Len(s) }

\* the record a sequence holds last for an identifier
LastWith(s, id) ==
    s[CHOOSE i \in 1..Len(s) :
          s[i].id = id /\ \A j \in (i + 1)..Len(s) : s[j].id # id]

\* C1: at most one page fetch is outstanding at any time, and a loadMore()
\* invoked while a request is outstanding issues none and changes no state
\* of the pagination.
C1_AtMostOneFetch ==
    [][ /\ Len(pending') <= 1
        /\ (op' = "loadMore" /\ pending # <<>>) =>
               UNCHANGED <<pending, loadingMore, page, hasMore, allCharacters,
                           filteredCharacters>> ]_vars

\* a loadMore() was invoked while the request of an earlier one was outstanding
C1_Witness ==
    op = "loadMore" /\ attempt.again /\ Len(pending) = 1 /\ attempt.outcome = "pending"

\* C2: loadMore() invoked again before the first fetch completed, page not
\* empty: once nothing is pending the cursor is 1 greater than before the
\* first invocation and the merged collection holds the prior identifiers
\* plus those of exactly one page, each once.
C2_DoubleInvocationOnePage ==
    (attempt.again /\ attempt.outcome = "ok" /\ pending = <<>>) =>
        /\ page = attempt.page + 1
        /\ op = "fetch" =>
              \E results \in ServerPages \ {<<>>} :
                 /\ Ids(filteredCharacters) = Ids(attempt.all) \cup Ids(results)
                 /\ Len(filteredCharacters) = Cardinality(Ids(filteredCharacters))
                 /\ \A c \in Elems(filteredCharacters) :
                       c \in Elems(attempt.all) \cup Elems(results)

\* the fetch of a twice-invoked loadMore() has completed with a page that
\* brought a new identifier
C2_Witness ==
    /\ attempt.again /\ attempt.outcome = "ok" /\ pending = <<>> /\ op = "fetch"
    /\ Ids(filteredCharacters) # Ids(attempt.all)

\* C3: the in-flight flag is true exactly while a fetch attempt is
\* outstanding: set when it starts, false again once it has ended, whatever
\* the outcome.  (The flag of a torn-down component is written no more: C19.)
C3_InFlightFlag ==
    mounted =>
        /\ pending # <<>> => loadingMore
        /\ pending = <<>> => ~loadingMore

\* an attempt has ended in an error and the flag is released
C3_Witness ==
    op = "fetch" /\ attempt.outcome = "error" /\ pending = <<>> /\ ~loadingMore

\* C4: has-more is latched: once false it stays false.
C4_HasMoreLatched == [][~hasMore => ~hasMore']_vars

\* has-more is false and the user went on working with the list
C4_Witness == ~hasMore /\ op = "ui" /\ selectedCharacter # NoCharacter

\* C5: a fetch that completes with an empty results array leaves has-more
\* false, and every loadMore() after that issues no request and changes
\* neither the cursor nor the collections.
C5_EmptyPageStops ==
    [][ /\ (attempt'.outcome = "empty" /\ op' = "fetch") => ~hasMore'
        /\ (op' = "loadMore" /\ ~hasMore) =>
               UNCHANGED <<pending, loadingMore, page, hasMore, allCharacters,
                           characters, filteredCharacters>> ]_vars

\* loadMore() was invoked after the empty page
C5_Witness ==
    op = "loadMore" /\ attempt.outcome = "empty" /\ ~hasMore /\ pending = <<>>

\* C6: the collection published after a non-empty page holds each identifier
\* once, and an identifier of the page is published with the record the page
\* holds last for it (also when the collection held that identifier before).
C6_MergeLastWins ==
    [][ \A i \in 1..MaxPending, results \in ServerPages :
          loadMoreResults(i, results) =>
             /\ Len(filteredCharacters') = Cardinality(Ids(filteredCharacters'))
             /\ allCharacters' = filteredCharacters'
             /\ \A id \in Ids(results) :
                   /\ id \in Ids(filteredCharacters')
                   /\ LastWith(filteredCharacters', id) = LastWith(results, id) ]_vars

\* a page was merged whose record for identifier 2 replaced the one held before
C6_Witness ==
    /\ op = "fetch" /\ attempt.outcome = "ok"
    /\ Char(2, <<98, 101>>, "Alive") \in Elems(filteredCharacters)
    /\ Char(2, <<66, 101>>, "Dead") \in Elems(attempt.all)

\* C7: a failed attempt leaves the cursor, has-more and the collection as
\* they were before it, and the next loadMore() requests the page number of
\* the failed attempt.
C7_ErrorLeavesCursor ==
    [][ /\ (op' = "fetch" /\ attempt'.outcome = "error") =>
              /\ UNCHANGED <<page, hasMore, allCharacters, characters,
                             filteredCharacters>>
              /\ page' = attempt'.page
              /\ hasMore'
              /\ allCharacters' = attempt'.all
        /\ (attempt'.outcome = "pending" /\ attempt'.retryOf # 0 /\ pending' # <<>>) =>
              pending'[1].page = attempt'.retryOf ]_vars

\* a request was issued after a failed attempt
C7_Witness ==
    attempt.outcome = "pending" /\ attempt.retryOf # 0 /\ pending # <<>>

\* C8: the cursor starts at 1, never decreases, grows by exactly 1 when a
\* fetch completes with a non-empty page, and no other step changes it.
C8_CursorSteps ==
    /\ page = 1
    /\ [][ /\ page' >= page
           /\ (attempt.outcome = "pending" /\ attempt'.outcome = "ok") => page' = page + 1
           /\ page' # page => (attempt.outcome = "pending" /\ attempt'.outcome = "ok") ]_vars

\* the cursor has moved and the user went on working with the list
C8_Witness == page > 1 /\ attempt.outcome = "ok" /\ op = "ui"

\* C9: recomputing the view never changes the parent's collection.
C9_SourceUntouched == [][characters' = characters]_vars

\* whether a name holds the term as a substring, letter case ignored
ContainsIgnoringCase(name, term) ==
    \E k \in 0..(Len(name) - Len(term)) :
        \A i \in 1..Len(term) : lowerUnit(name[k + i]) = lowerUnit(term[i])

Wanted(c) ==
    /\ filter = "All" \/ c.status = filter
    /\ searchTerm = <<>> \/ ContainsIgnoringCase(c.name, searchTerm)

Count(s, c) == Cardinality({ i \in 1..Len(s) : s[i] = c })

\* C10: the view holds exactly the records of the collection that pass the
\* status filter and the search term: none dropped, none added.
C10_ViewIsTheMatches ==
    \A c \in Elems(characters) \cup Elems(filteredCharacters) :
        Count(filteredCharacters, c) = IF Wanted(c) THEN Count(characters, c) ELSE 0

\* both filters are on, a name differing from the term in letter case is
\* kept and another record is dropped
C10_Witness ==
    /\ op = "ui"
    /\ filter = "Dead" /\ searchTerm = <<98, 69>>
    /\ \E c \in Elems(filteredCharacters) : c.name = <<66, 101>>
    /\ Len(filteredCharacters) < Len(characters)

\* whether a precedes b in the lexicographic order of code units
LexSmaller(a, b) ==
    \E k \in 0..Len(a) :
        /\ k <= Len(b)
        /\ \A i \in 1..k : a[i] = b[i]
        /\ \/ k = Len(a) /\ k < Len(b)
           \/ k < Len(a) /\ k < Len(b) /\ a[k + 1] < b[k + 1]

\* C11: the view of the pipeline is ordered by name: of two records with
\* distinct names the smaller name comes first under "asc", the larger under
\* "desc".
C11_ViewOrderedByName ==
    \A i, j \in 1..Len(filteredCharacters) :
        (i < j /\ filteredCharacters[i].name # filteredCharacters[j].name) =>
            IF sortOrder = "asc"
            THEN LexSmaller(filteredCharacters[i].name, filteredCharacters[j].name)
            ELSE LexSmaller(filteredCharacters[j].name, filteredCharacters[i].name)

\* a descending view of three records recomputed after a change of the props,
\* with a name that is a prefix of another
C11_Witness ==
    /\ op = "ui" /\ sortOrder = "desc"
    /\ Len(filteredCharacters) = 3
    /\ filteredCharacters[1].name = <<98, 101>>
    /\ filteredCharacters[2].name = <<82, 105>>
    /\ filteredCharacters[3].name = <<82>>

\* C18: the pipeline applied to its own output, with the same filter, term
\* and direction, yields that output again.
C18_PipelineIdempotent ==
    getFilteredAndSortedCharacters(filteredCharacters, filter, searchTerm,
                                   sortOrder).view = filteredCharacters

\* a recomputed view that holds two records of the same name and left a
\* record out
C18_Witness ==
    /\ op = "ui"
    /\ Len(filteredCharacters) < Len(characters)
    /\ \E i, j \in 1..Len(filteredCharacters) :
          i # j /\ filteredCharacters[i].name = filteredCharacters[j].name

\* whether a view is ordered by name in the given direction
OrderedByName(view, order) ==
    \A i, j \in 1..Len(view) :
        (i < j /\ view[i].name # view[j].name) =>
            IF order = "asc" THEN LexSmaller(view[i].name, view[j].name)
            ELSE LexSmaller(view[j].name, view[i].name)

\* C12: in every state the view holds only records that pass the current
\* status filter and search term, ordered in the current sort direction.
C12_ViewFollowsInputs ==
    /\ \A c \in Elems(filteredCharacters) : Wanted(c)
    /\ OrderedByName(filteredCharacters, sortOrder)

\* the overlay states of section 4.3
Idle == selectedCharacter = NoCharacter /\ ~isModalVisible /\ ~isEditModalVisible
EditOpen == selectedCharacter # NoCharacter /\ ~isModalVisible /\ isEditModalVisible

\* C13: the detail overlay and the edit overlay are never both visible.
C13_OverlaysExclusive == ~(isModalVisible /\ isEditModalVisible)

\* C14: cancelEdit() or saveEdit(updated) from EditOpen leads to Idle: both
\* overlays hidden, no selection.
C14_EditLeavesToIdle ==
    [][ (EditOpen /\ (closeEditModal
                      \/ \E updated \in Edits(selectedCharacter) : saveEdit(updated)))
           => Idle' ]_vars

\* C16: a confirmed delete leaves no record with the identifier, keeps every
\* other record, and leads to Idle.
C16_ConfirmedDelete ==
    [][ confirmDelete =>
           /\ alert.id \notin Ids(characters')
           /\ \A c \in Elems(characters) : c.id # alert.id => c \in Elems(characters')
           /\ Idle' ]_vars

\* C15: saveEdit(updated) publishes a collection in which the record whose
\* identifier is updated.id is replaced by updated and every other record is
\* unchanged, with the same length and order as before; with no record of
\* that identifier the contents are unchanged.
C15_SaveEditReplacesInPlace ==
    [][ \A updated \in Edits(selectedCharacter) :
          saveEdit(updated) =>
              /\ Len(characters') = Len(characters)
              /\ \A i \in 1..Len(characters) :
                     characters'[i] = IF characters[i].id = updated.id
                                      THEN updated ELSE characters[i] ]_vars

\* C17: requestDelete(id) followed by cancelling the confirmation changes no
\* state: the collection, the selection and both overlay flags are as they
\* were before requestDelete was invoked.
C17_CancelChangesNothing ==
    [][ cancelDelete => /\ characters' = alert.characters
                        /\ overlay' = alert.before ]_vars

\* C20: a loadMore() completion does not undo local changes made while or
\* before the fetch was pending: once the merge is published, a record removed
\* by a confirmed delete is not in the displayed view, and a record changed by
\* saveEdit is displayed with its edited value, unless the fetched page itself
\* holds that identifier.
C20_MergeKeepsLocalChanges ==
    [][ \A i \in 1..MaxPending, results \in ServerPages :
          loadMoreResults(i, results) =>
              /\ \A id \in local.deleted \ Ids(results) :
                     id \notin Ids(filteredCharacters')
              /\ \A id \in (local.edited \ local.deleted) \ Ids(results) :
                     \A c \in Elems(filteredCharacters') :
                         c.id = id => c \in Elems(characters) ]_vars

====
